---- MODULE Spec2Model ----
(***************************************************************************)
(* Write-ahead journal of journal.c: cmd_create stages a file creation as  *)
(* one transaction in the journal region, cmd_install replays the journal  *)
(* to the home blocks and clears it.                                       *)
(*                                                                         *)
(* The image is a flat array of cells.  A cell stands for one aligned unit *)
(* of the on-disk layout: a 32-bit word of a journal record (type tag,     *)
(* block number, the header's nbytes_used), one word of the inode bitmap,  *)
(* one inode_t of an inode-table block, one dirent_t of the directory      *)
(* block.  A cell is [w |-> its first 32-bit word, x |-> the rest of it]   *)
(* (x is the name of a dirent_t, <<>> for all-zero).  Sizes and offsets    *)
(* are counted in cells, so sizeof(journal_header_t) = sizeof(uint32_t) =  *)
(* 1, and a block is BLOCK_SIZE cells.                                     *)
(*                                                                         *)
(* readblk/writeblk always move a whole block.  read_jhdr and write_jhdr   *)
(* hand them a 4-byte journal_header_t: the bytes write_jhdr reads past    *)
(* the struct are not determined by the program and are drawn from         *)
(* GarbageWords; the bytes read_jhdr stores past the struct are taken to   *)
(* land in buffers that are filled again before they are used.             *)
(*                                                                         *)
(* cmd_install keeps the DATA records it reads in pending[8]; a record     *)
(* stored past the array is read back as stored or overwritten, and the    *)
(* return of the function may then fail.  No return value of a system call *)
(* is tested: IoSpec adds write calls that fail to the steps of Spec.      *)
(***************************************************************************)
EXTENDS Integers, Sequences, FiniteSets, TLC

(* ---- bounds of the model ---- *)
BitsPerCell == 3         \* bitmap bits held by one bitmap cell
MaxOps == 3              \* commands started in one behaviour
MaxCrashes == 1          \* commands killed in one behaviour

(* ---- constants of journal.c ---- *)
\* The block size in cells.  With 3 cells a block holds 3 inodes, 3
\* directory entries and 9 bitmap bits, a DATA record is 5 cells and the
\* journal holds two transactions; the source has 4096 bytes, 73 inodes,
\* 128 entries, 32768 bits, 4104 bytes and five transactions.
BLOCK_SIZE == 3
JOURNAL_BLOCK_IDX == 1
JOURNAL_BLOCKS == 16
INODE_BLOCKS == 2
MAX_NAME == 28
JTYPE_DATA == 1
JTYPE_COMMIT == 2
PENDING_MAX == 8

INODE_BMAP_IDX == JOURNAL_BLOCK_IDX + JOURNAL_BLOCKS
DATA_BMAP_IDX == INODE_BMAP_IDX + 1
INODE_START_IDX == DATA_BMAP_IDX + 1
DATA_START_IDX == INODE_START_IDX + INODE_BLOCKS

SizeofHeader == 1                       \* sizeof(journal_header_t), one word
SizeofType == 1                         \* sizeof(uint32_t)
SizeofData == 2 + BLOCK_SIZE            \* sizeof(journal_data_t)
SizeofCommit == 1                       \* sizeof(journal_commit_t)
SizeofInode == 1                        \* sizeof(inode_t), one cell
SizeofDirent == 1                       \* sizeof(dirent_t), one cell

BmapBits == BLOCK_SIZE * BitsPerCell    \* BLOCK_SIZE * 8 in the source
ipb == BLOCK_SIZE \div SizeofInode
DirSlots == BLOCK_SIZE \div SizeofDirent
txn_size == 3 * SizeofData + SizeofCommit
journal_cap == JOURNAL_BLOCKS * BLOCK_SIZE - SizeofHeader

Max(a, b) == IF a >= b THEN a ELSE b
Min(a, b) == IF a <= b THEN a ELSE b

\* Blocks of the image that the model keeps: everything up to the root
\* directory block, and every block an inode number of the bitmap maps to.
NumBlocks == Max(DATA_START_IDX + 1, INODE_START_IDX + (BmapBits + ipb - 1) \div ipb)
NumCells == NumBlocks * BLOCK_SIZE

(* ---- cells ---- *)
Word(n) == [w |-> n, x |-> <<>>]
Zero == Word(0)
InodeWord(type, links) == type + 65536 * links   \* two uint16_t, little endian
FileInode == Word(InodeWord(1, 1))               \* type=1, links=1, size=0, blocks=0
Dirent(ino, nm) == [w |-> ino, x |-> nm]

\* Values of the words that follow a journal_header_t in memory.
GarbageWords == {0, JTYPE_DATA, JTYPE_COMMIT, DATA_START_IDX}
Garbage == [1..(BLOCK_SIZE - SizeofHeader) -> {Word(g) : g \in GarbageWords}]

(* ---- low-level I/O ---- *)
blkoff(b) == b * BLOCK_SIZE

\* The image is the sequence of its cells: the cell at address a is d[a + 1].
\* A read past the end of the file leaves the rest of the buffer as it was
\* (zero here).
pread(d, n, off) ==
  SubSeq(d, off + 1, Min(off + n, NumCells))
    \o [k \in 1..(off + n - Min(off + n, NumCells)) |-> Zero]

pwrite(d, buf, off) ==
  SubSeq(d, 1, off) \o buf \o SubSeq(d, off + Len(buf) + 1, NumCells)

readblk(d, b) == pread(d, BLOCK_SIZE, blkoff(b))

\* A block past the modelled part of the image only extends the file.
writeblk(d, b, buf) == IF b < NumBlocks THEN pwrite(d, buf, blkoff(b)) ELSE d

read_jhdr(d) == d[blkoff(JOURNAL_BLOCK_IDX) + 1].w

\* writeblk of a whole block from a one-word struct: the header word and
\* BLOCK_SIZE - 1 cells of whatever follows it in memory.
write_jhdr(d, nbytes_used, g) ==
  writeblk(d, JOURNAL_BLOCK_IDX, <<Word(nbytes_used)>> \o g)

RecordStart == blkoff(JOURNAL_BLOCK_IDX) + SizeofHeader

DataRec(block_no, data) == <<Word(JTYPE_DATA), Word(block_no)>> \o data
CommitRec == <<Word(JTYPE_COMMIT)>>

(* ---- inode bitmap, inode table and directory blocks in memory ---- *)
Pow2(k) == IF k = 0 THEN 1 ELSE IF k = 1 THEN 2 ELSE IF k = 2 THEN 4
           ELSE IF k = 3 THEN 8 ELSE IF k = 4 THEN 16 ELSE 32

\* inode_bmap[i / 8] & (1 << (i % 8))
BitSet(bmap, b) ==
  (bmap[b \div BitsPerCell + 1].w \div Pow2(b % BitsPerCell)) % 2 = 1

\* inode_bmap[i / 8] |= (1 << (i % 8)), on a clear bit
SetBit(bmap, b) ==
  [bmap EXCEPT ![b \div BitsPerCell + 1].w = @ + Pow2(b % BitsPerCell)]

\* Faulty variant: ino starts at 0, so a full bitmap yields inode 0.
FirstFreeInodeZero(bmap) ==
  IF \E b \in 0..(BmapBits - 1) : ~BitSet(bmap, b)
  THEN CHOOSE b \in 0..(BmapBits - 1) :
         /\ ~BitSet(bmap, b)
         /\ \A c \in 0..(b - 1) : BitSet(bmap, c)
  ELSE 0

\* The scan of lines 124-132: first clear bit, -1 when there is none.
FirstFreeInode(bmap) ==
  IF \E b \in 0..(BmapBits - 1) : ~BitSet(bmap, b)
  THEN CHOOSE b \in 0..(BmapBits - 1) :
         /\ ~BitSet(bmap, b)
         /\ \A c \in 0..(b - 1) : BitSet(bmap, c)
  ELSE -1

\* strncpy(ents[i].name, name, MAX_NAME - 1) into a slot whose last byte is 0
strncpy(nm) == SubSeq(nm, 1, Min(Len(nm), MAX_NAME - 1))

\* The scan of lines 158-164: first slot from index 2 whose inode is 0,
\* -1 when the loop ends without a break.
FirstFreeSlot(dir) ==
  IF \E s \in 2..(DirSlots - 1) : dir[s + 1].w = 0
  THEN CHOOSE s \in 2..(DirSlots - 1) :
         /\ dir[s + 1].w = 0
         /\ \A t \in 2..(s - 1) : dir[t + 1].w # 0
  ELSE -1

AddDirent(dir, inum, nm) ==
  IF FirstFreeSlot(dir) = -1 THEN dir
  ELSE [dir EXCEPT ![FirstFreeSlot(dir) + 1] = Dirent(inum, strncpy(nm))]

InitInode(blk, itable_off) == [blk EXCEPT ![itable_off + 1] = FileInode]

ItableBlock(inum) == INODE_START_IDX + (inum \div ipb)

(* ---- images the commands start from ---- *)
\* The image the formatter leaves: superblock, journal header 0, zeroed
\* bitmaps and inode table, "." and ".." in directory slots 0 and 1.
FreshImage ==
  [a \in 1..NumCells |->
     IF a = 1 THEN Word(INODE_START_IDX)
     ELSE IF a = blkoff(DATA_START_IDX) + 1 THEN Dirent(0, <<".">>)
     ELSE IF a = blkoff(DATA_START_IDX) + 2 THEN Dirent(0, <<".", ".">>)
     ELSE Zero]

OldName == <<"o">>

\* The image after n creations from FreshImage, each replayed in full
\* before the next: inode numbers 0..n-1 are allocated in turn; an inode
\* lands in block ItableBlock(number), except in the directory block, which
\* the third record of the same transaction overwrites; the directory entry
\* of inode 0 reads as free and is taken by the second creation.
Image(n) ==
  [a \in 1..NumCells |->
     LET b == (a - 1) \div BLOCK_SIZE
         k == (a - 1) % BLOCK_SIZE
     IN  IF b = INODE_BMAP_IDX
           THEN Word(Pow2(Max(0, Min(BitsPerCell, n - k * BitsPerCell))) - 1)
         ELSE IF b >= INODE_START_IDX /\ b # DATA_START_IDX
           THEN IF (b - INODE_START_IDX) * ipb + k < n THEN FileInode ELSE Zero
         ELSE IF b = DATA_START_IDX /\ k >= 2
           THEN IF n = 1 /\ k = 2 THEN Dirent(0, OldName)
                ELSE IF n >= 2 /\ k - 1 <= n - 1 THEN Dirent(k - 1, OldName)
                ELSE Zero
         ELSE FreshImage[a]]

\* Numbers of earlier creations the start image holds: none, one, a full
\* directory, a full inode table, a full inode bitmap.
StartImages == {0, 1, DirSlots - 1, INODE_BLOCKS * ipb, BmapBits}

Names == {<<"a">>, [k \in 1..(MAX_NAME + 1) |-> "n"]}

(* ---- state ---- *)
VARIABLES
  disk,          \* the image file, cell by cell
  pc,            \* position of the running command, "idle" between commands
  status,        \* how the last command ended: "none" (running), "ok",
                 \* "exit1", "killed" (from outside), "fault" (by itself)
  stderr,        \* what the last command printed to stderr
  jh,            \* jh.nbytes_used of the running command
  off,           \* its journal offset (cell address)
  name,          \* cmd_create: argv[2]
  ino,           \* cmd_create: allocated inode number
  inode_bmap,    \* cmd_create: buffers
  itable_blk,
  dirblk,
  itable_block,
  end,           \* cmd_install: end of valid journal data
  pending,       \* cmd_install: DATA records read since the last COMMIT
  i,             \* cmd_install: index of the apply loop
  oob,           \* cmd_install: a record was stored past pending[7]
  ioerr,         \* a write call of the running or last command returned -1
  ops,           \* commands started so far
  crashes,       \* commands killed so far
  cmd,           \* the running or last command: "none", "create", "install"
  before,        \* the image when the running command started, <<>> when idle
  hist,          \* the last two commands that have ended, older first
  interrupted    \* the last killed command and the image it started from,
                 \* kept while the command after it runs and until another starts

vars == <<disk, pc, status, stderr, jh, off, name, ino, inode_bmap, itable_blk,
          dirblk, itable_block, end, pending, i, oob, ioerr, ops, crashes, cmd,
          before, hist, interrupted>>

createLocals == <<name, ino, inode_bmap, itable_blk, dirblk, itable_block>>
installLocals == <<end, pending, i, oob>>

np == Len(pending)

NoLocals ==
  /\ jh = 0 /\ off = 0 /\ name = <<>> /\ ino = -1
  /\ inode_bmap = <<>> /\ itable_blk = <<>> /\ dirblk = <<>> /\ itable_block = 0
  /\ end = 0 /\ pending = <<>> /\ i = 0 /\ oob = FALSE

NotInterrupted == [cmd |-> "none", image |-> <<>>]

Init ==
  /\ disk \in {Image(n) : n \in StartImages}
  /\ pc = "idle" /\ status = "none" /\ stderr = ""
  /\ NoLocals
  /\ ioerr = FALSE
  /\ ops = 0 /\ crashes = 0 /\ cmd = "none" /\ before = <<>>
  /\ hist = <<>> /\ interrupted = NotInterrupted

\* What hist keeps of a command: how it ended, its argument, the inode
\* number and directory slot it found (-1: none) and the bytesUsed it read.
Ended(c, st, nm, inum, slot, u) ==
  [cmd |-> c, status |-> st, name |-> nm, ino |-> inum, slot |-> slot, u |-> u]

\* hist keeps the last two.
Remember(h, e) == IF Len(h) >= 2 THEN <<h[Len(h)], e>> ELSE Append(h, e)

\* A command that starts right after a killed one keeps the record of it.
StillInterrupted == IF status = "killed" THEN interrupted ELSE NotInterrupted

\* The process is gone: its locals with it.
Exit(st, msg) ==
  /\ pc' = "idle" /\ status' = st /\ stderr' = msg
  /\ jh' = 0 /\ off' = 0 /\ name' = <<>> /\ ino' = -1
  /\ inode_bmap' = <<>> /\ itable_blk' = <<>> /\ dirblk' = <<>>
  /\ itable_block' = 0
  /\ end' = 0 /\ pending' = <<>> /\ i' = 0 /\ oob' = FALSE
  /\ before' = <<>>

(* ---- cmd_create ---- *)
\* Faulty variant: the check forgets the size of the transaction to come.
JournalFullLate(nbytes) == nbytes > journal_cap

\* jh.nbytes_used + txn_size > journal_cap (line 108)
JournalFull(nbytes) == nbytes + txn_size > journal_cap

\* Lines 88-164: read the header and the metadata, check the capacity,
\* allocate the inode and build the three blocks in memory.
CreateStart(nm) ==
  /\ pc = "idle" /\ ops < MaxOps
  /\ ops' = ops + 1 /\ cmd' = "create" /\ ioerr' = FALSE
  /\ UNCHANGED <<disk, crashes>>
  /\ LET nbytes == read_jhdr(disk)
         bmap   == readblk(disk, INODE_BMAP_IDX)
         dir    == readblk(disk, DATA_START_IDX)
         inum   == FirstFreeInode(bmap)
         itb    == ItableBlock(inum)
     IN  IF JournalFull(nbytes)
           THEN /\ Exit("exit1", "journal full\n")
                /\ interrupted' = StillInterrupted
                /\ hist' = Remember(hist, Ended("create", "exit1", nm, -1, -1, nbytes))
         ELSE IF inum < 0
           THEN /\ Exit("exit1", "")
                /\ interrupted' = StillInterrupted
                /\ hist' = Remember(hist, Ended("create", "exit1", nm, -1, -1, nbytes))
         ELSE /\ pc' = "c_data1" /\ status' = "none" /\ stderr' = ""
              /\ before' = disk
              /\ interrupted' = StillInterrupted
              /\ UNCHANGED hist
              /\ jh' = nbytes
              /\ name' = nm
              /\ ino' = inum
              /\ inode_bmap' = SetBit(bmap, inum)
              /\ itable_block' = itb
              /\ itable_blk' = InitInode(readblk(disk, itb), inum % ipb)
              /\ dirblk' = AddDirent(dir, inum, nm)
              /\ off' = RecordStart + nbytes
              /\ UNCHANGED installLocals

\* Faulty variant: the block is written through to its home location as well.
CreateDataThrough(at, next, block_no, data) ==
  /\ pc = at
  /\ disk' = writeblk(pwrite(disk, DataRec(block_no, data), off), block_no, data)
  /\ off' = off + SizeofData
  /\ pc' = next
  /\ UNCHANGED <<status, stderr, jh, createLocals, installLocals, ioerr, ops,
                 crashes, cmd, before, hist, interrupted>>

\* One pwrite of a DATA record (lines 176-193).
CreateData(at, next, block_no, data) ==
  /\ pc = at
  /\ disk' = pwrite(disk, DataRec(block_no, data), off)
  /\ off' = off + SizeofData
  /\ pc' = next
  /\ UNCHANGED <<status, stderr, jh, createLocals, installLocals, ioerr, ops,
                 crashes, cmd, before, hist, interrupted>>

CreateData1 == CreateData("c_data1", "c_data2", INODE_BMAP_IDX, inode_bmap)
CreateData2 == CreateData("c_data2", "c_data3", itable_block, itable_blk)
CreateData3 == CreateData("c_data3", "c_commit", DATA_START_IDX, dirblk)

\* Lines 195-197.
CreateCommit ==
  /\ pc = "c_commit"
  /\ disk' = pwrite(disk, CommitRec, off)
  /\ pc' = "c_header"
  /\ UNCHANGED <<status, stderr, jh, off, createLocals, installLocals, ioerr,
                 ops, crashes, cmd, before, hist, interrupted>>

\* Lines 199-205.
CreateHeader ==
  /\ pc = "c_header"
  /\ \E g \in Garbage : disk' = write_jhdr(disk, jh + txn_size, g)
  /\ Exit("ok", "")
  /\ hist' = Remember(hist, Ended("create", "ok", name, ino,
                                FirstFreeSlot(readblk(before, DATA_START_IDX)), jh))
  /\ UNCHANGED <<ioerr, ops, crashes, cmd, interrupted>>

(* ---- cmd_install ---- *)
\* Lines 211-228, with e the end of valid journal data.
InstallBegin(e) ==
  /\ pc = "idle" /\ ops < MaxOps
  /\ ops' = ops + 1 /\ cmd' = "install" /\ before' = disk /\ ioerr' = FALSE
  /\ pc' = "i_scan" /\ status' = "none" /\ stderr' = ""
  /\ jh' = read_jhdr(disk)
  /\ off' = RecordStart
  /\ end' = e
  /\ pending' = <<>> /\ i' = 0 /\ oob' = FALSE
  /\ interrupted' = StillInterrupted
  /\ UNCHANGED <<disk, crashes, createLocals, hist>>

\* Faulty variant: the scan runs to the end of the journal region, not to the
\* persisted length.
InstallStartScanAll == InstallBegin(RecordStart + journal_cap)

\* off_t end = off + jh.nbytes_used (line 225)
InstallStart == InstallBegin(RecordStart + read_jhdr(disk))

\* A record as cmd_install keeps it in pending[]: block_no and data of the
\* sizeof(journal_data_t) bytes read at off.
PendingRec(d, at) ==
  LET rec == pread(d, SizeofData, at)
  IN  [block_no |-> rec[2].w, data |-> SubSeq(rec, 3, SizeofData)]

\* What pending[np] gives back when it is applied, for np >= 8: the store
\* went past the end of the array, into whatever the frame of cmd_install
\* keeps there, so the record may be read back as stored or overwritten.
StoredPast(rec) == {rec, [rec EXCEPT !.data = [k \in 1..BLOCK_SIZE |-> Zero]]}

\* One pass of the while loop of lines 231-251, up to its first writeblk.
InstallScan ==
  /\ pc = "i_scan"
  /\ UNCHANGED <<disk, status, stderr, jh, end, createLocals, ioerr, ops,
                 crashes, cmd, before, hist, interrupted>>
  /\ LET type == pread(disk, SizeofType, off)[1].w
     IN  IF off >= end
           THEN pc' = "i_header" /\ UNCHANGED <<off, pending, i, oob>>
         ELSE IF type = JTYPE_DATA
           THEN /\ \E rec \in (IF np >= PENDING_MAX
                                THEN StoredPast(PendingRec(disk, off))
                                ELSE {PendingRec(disk, off)}) :
                     pending' = Append(pending, rec)
                /\ oob' = (oob \/ np >= PENDING_MAX)
                /\ off' = off + SizeofData
                /\ UNCHANGED <<pc, i>>
         ELSE IF type = JTYPE_COMMIT
           THEN IF np = 0
                  THEN /\ off' = off + SizeofCommit
                       /\ UNCHANGED <<pc, pending, i, oob>>
                  ELSE /\ pc' = "i_apply" /\ i' = 0
                       /\ UNCHANGED <<off, pending, oob>>
         ELSE pc' = "i_header" /\ UNCHANGED <<off, pending, i, oob>>

\* One writeblk of the for loop of lines 242-247; after the last one,
\* np = 0 and off moves past the COMMIT record.
InstallApply ==
  /\ pc = "i_apply"
  /\ disk' = writeblk(disk, pending[i + 1].block_no, pending[i + 1].data)
  /\ IF i + 1 < np
       THEN /\ i' = i + 1
            /\ UNCHANGED <<pc, off, pending>>
       ELSE /\ i' = 0 /\ pending' = <<>>
            /\ off' = off + SizeofCommit
            /\ pc' = "i_scan"
  /\ UNCHANGED <<status, stderr, jh, end, oob, createLocals, ioerr, ops,
                 crashes, cmd, before, hist, interrupted>>

\* Lines 253-259, with n the length written.  After a store past
\* pending[7] the return of cmd_install may find its frame overwritten.
InstallEnd(n) ==
  /\ pc = "i_header"
  /\ \E g \in Garbage : disk' = write_jhdr(disk, n, g)
  /\ \E st \in (IF oob THEN {"ok", "fault"} ELSE {"ok"}) :
       /\ Exit(st, "")
       /\ hist' = Remember(hist, Ended("install", st, <<>>, -1, -1, jh))
  /\ UNCHANGED <<ioerr, ops, crashes, cmd, interrupted>>

\* Faulty variant: the header is written back without the reset.
InstallHeaderKeep == InstallEnd(jh)

\* jh.nbytes_used = 0 (line 254)
InstallHeader == InstallEnd(0)

(* ---- the process is killed between two system calls ---- *)
Crash ==
  /\ pc # "idle" /\ crashes < MaxCrashes
  /\ crashes' = crashes + 1
  /\ Exit("killed", "")
  /\ interrupted' = [cmd |-> cmd, image |-> before]
  /\ hist' = Remember(hist, Ended(cmd, "killed", name, ino, -1, jh))
  /\ UNCHANGED <<disk, ioerr, ops, cmd>>

Next ==
  \/ \E nm \in Names : CreateStart(nm)
  \/ CreateData1 \/ CreateData2 \/ CreateData3
  \/ CreateCommit
  \/ CreateHeader
  \/ InstallStart
  \/ InstallScan
  \/ InstallApply
  \/ InstallHeader
  \/ Crash

Spec == Init /\ [][Next]_vars

(* ---- the replay of cmd_install as a function of the image ---- *)
RECURSIVE ApplyAll(_, _, _)
ApplyAll(d, pend, k) ==
  IF k > Len(pend) THEN d
  ELSE ApplyAll(writeblk(d, pend[k].block_no, pend[k].data), pend, k + 1)

\* The image the while loop of lines 231-251 leaves, started at offset o
\* with pend pending.
RECURSIVE Replay(_, _, _, _)
Replay(d, o, e, pend) ==
  IF o >= e THEN d
  ELSE IF pread(d, SizeofType, o)[1].w = JTYPE_DATA
    THEN Replay(d, o + SizeofData, e, Append(pend, PendingRec(d, o)))
  ELSE IF pread(d, SizeofType, o)[1].w = JTYPE_COMMIT
    THEN Replay(ApplyAll(d, pend, 1), o + SizeofCommit, e, <<>>)
  ELSE d

Replayed(d) == Replay(d, RecordStart, RecordStart + read_jhdr(d), <<>>)

(* ---- views of the image ---- *)
Block(d, b) == readblk(d, b)
\* Inode bitmap, data bitmap, inode table, root directory block.
HomeBlocks(d) == SubSeq(d, blkoff(INODE_BMAP_IDX) + 1, blkoff(DATA_START_IDX + 1))
\* The record area: the journal region after the header word.
JournalBytes(d) == SubSeq(d, RecordStart + 1, blkoff(INODE_BMAP_IDX))
bytesUsed == read_jhdr(disk)

(***************************************************************************)
(* C1  Atomicity under crash.  A create killed before its header write     *)
(* leaves bytesUsed as it was, and the install that follows leaves the     *)
(* home blocks as an install of the image before that create would have    *)
(* left them: unchanged when bytesUsed was 0.                              *)
(***************************************************************************)
AfterKilledCreate == interrupted.cmd = "create"

CrashAtomicity ==
  /\ (AfterKilledCreate /\ pc = "idle" /\ status = "killed")
       => bytesUsed = read_jhdr(interrupted.image)
  /\ (AfterKilledCreate /\ cmd = "install" /\ pc \in {"i_header", "idle"})
       => /\ HomeBlocks(disk) = HomeBlocks(Replayed(interrupted.image))
          /\ read_jhdr(interrupted.image) = 0
               => HomeBlocks(disk) = HomeBlocks(interrupted.image)

\* An install has run to its end after a create was killed with all of its
\* records, COMMIT included, in the journal.
CrashAtomicityWitness ==
  /\ AfterKilledCreate /\ cmd = "install" /\ pc = "idle" /\ status = "ok"
  /\ LET u == read_jhdr(interrupted.image)
     IN  /\ u = txn_size
         /\ pread(disk, SizeofType, RecordStart + u + 3 * SizeofData)
              = CommitRec
         /\ pread(interrupted.image, SizeofType, RecordStart + u + 3 * SizeofData)
              # CommitRec

(* ---- what the last commands were ---- *)
Last == hist[Len(hist)]
Prev == hist[Len(hist) - 1]
\* The last command was an install that ran to its end, right after a
\* create that ran to its end.
CreateThenInstall ==
  /\ pc = "idle" /\ Len(hist) = 2
  /\ Prev.cmd = "create" /\ Prev.status = "ok"
  /\ Last.cmd = "install" /\ Last.status = "ok"

\* inodes[itable_off] of block ItableBlock(n)
Inode(d, n) == Block(d, ItableBlock(n))[(n % ipb) + 1]
InTable(n) == n >= 0 /\ n < INODE_BLOCKS * ipb
HasEntry(d, n, nm) ==
  \E s \in 0..(DirSlots - 1) : Block(d, DATA_START_IDX)[s + 1] = Dirent(n, nm)

(***************************************************************************)
(* C2  Round trip.  After a create from an Empty journal (with a free      *)
(* inode and a free directory slot) and an install, the root directory     *)
(* holds {name, N}, bit N of the inode bitmap is set and inode-table entry *)
(* N is {type=file, links=1, size=0}.                                      *)
(***************************************************************************)
RoundTrip ==
  (CreateThenInstall /\ Prev.u = 0 /\ Prev.slot # -1)
    => /\ HasEntry(disk, Prev.ino, Prev.name)
       /\ BitSet(Block(disk, INODE_BMAP_IDX), Prev.ino)
       /\ InTable(Prev.ino)
       /\ Inode(disk, Prev.ino) = FileInode

(***************************************************************************)
(* C3  Capacity enforcement.  A create that finds bytesUsed + 3 DATA       *)
(* records + 1 COMMIT record above the journal capacity fails with         *)
(* "journal full" and changes no byte of the image; a create that finds    *)
(* room does not fail that way.  With room for exactly K transactions the  *)
(* (K+1)-th create in a row is the first to fail.                          *)
(***************************************************************************)
CreateStarts == pc = "idle" /\ cmd' = "create" /\ ops' = ops + 1
FailsJournalFull == pc' = "idle" /\ status' = "exit1" /\ stderr' = "journal full\n"

CapacityEnforced ==
  [][CreateStarts =>
       IF bytesUsed + 3 * SizeofData + SizeofCommit > journal_cap
         THEN FailsJournalFull /\ disk' = disk
         ELSE ~FailsJournalFull]_vars

\* The (K+1)-th create in a row has failed on a journal filled by K.
CapacityWitness ==
  /\ pc = "idle" /\ Len(hist) = 2
  /\ Prev.cmd = "create" /\ Prev.status = "ok"
  /\ Prev.u = ((journal_cap \div txn_size) - 1) * txn_size
  /\ Last.cmd = "create" /\ Last.status = "exit1" /\ stderr = "journal full\n"
  /\ Last.u = (journal_cap \div txn_size) * txn_size
  /\ bytesUsed = Last.u

(***************************************************************************)
(* C4  Replay idempotence.  When the journal holds one committed           *)
(* transaction, a first install ends with bytesUsed = 0, and a second      *)
(* install right after it writes no block, leaves the home blocks as the   *)
(* first left them and ends with bytesUsed = 0.                            *)
(***************************************************************************)
AfterInstallOfOne ==
  /\ Len(hist) >= 1
  /\ Last.cmd = "install" /\ Last.status = "ok" /\ Last.u = txn_size

ReplayIdempotent ==
  [][/\ (pc = "i_header" /\ jh = txn_size /\ status' = "ok") => bytesUsed' = 0
     /\ (AfterInstallOfOne /\ cmd = "install" /\ pc # "idle")
          => /\ pc' # "i_apply"
             /\ HomeBlocks(disk') = HomeBlocks(disk)
             /\ (pc = "i_header" /\ status' = "ok") => bytesUsed' = 0]_vars

\* Two installs in a row have ended, the first one on a journal of one
\* transaction that it applied: the directory holds the created name.
ReplayIdempotentWitness ==
  /\ pc = "idle" /\ Len(hist) = 2
  /\ Prev.cmd = "install" /\ Prev.status = "ok" /\ Prev.u = txn_size
  /\ Last.cmd = "install" /\ Last.status = "ok"
  /\ \E nm \in Names, n \in 0..(BmapBits - 1) : HasEntry(disk, n, strncpy(nm))

(***************************************************************************)
(* C5  Directory full.  A create that finds no directory slot with inode   *)
(* 0 at index 2 or above fails, before any journal byte is written and     *)
(* without changing bytesUsed.                                             *)
(***************************************************************************)
DirectoryFull(d) == FirstFreeSlot(Block(d, DATA_START_IDX)) = -1

DirectoryFullFails ==
  [][(CreateStarts /\ DirectoryFull(disk))
       => (pc' = "idle" /\ status' = "exit1" /\ disk' = disk)]_vars

(***************************************************************************)
(* C6  No free inode.  A create that finds every bit of the inode bitmap   *)
(* block set fails (exit status 1), writes no byte of the image and so     *)
(* leaves bytesUsed unchanged.                                             *)
(***************************************************************************)
BitmapFull(d) == \A b \in 0..(BmapBits - 1) : BitSet(Block(d, INODE_BMAP_IDX), b)

NoFreeInodeFails ==
  [][(CreateStarts /\ BitmapFull(disk))
       => (pc' = "idle" /\ status' = "exit1" /\ disk' = disk)]_vars

\* A create has failed on a full bitmap with room left in the journal: the
\* failure is the one of line 134, which prints nothing.
NoFreeInodeWitness ==
  /\ pc = "idle" /\ Len(hist) >= 1
  /\ Last.cmd = "create" /\ Last.status = "exit1" /\ status = "exit1"
  /\ stderr = "" /\ ~JournalFull(bytesUsed)
  /\ BitmapFull(disk)

(***************************************************************************)
(* C7  Header bound.  In every reachable state 0 <= bytesUsed <=           *)
(* journalCapacity, and bytesUsed changes only by the header write of a    *)
(* create (up by one transaction size) and the header write of an install  *)
(* (to 0).                                                                 *)
(***************************************************************************)
HeaderBound ==
  [][/\ bytesUsed >= 0 /\ bytesUsed <= journal_cap
     /\ bytesUsed' >= 0 /\ bytesUsed' <= journal_cap
     /\ bytesUsed' # bytesUsed
          => \/ pc = "c_header" /\ bytesUsed' = bytesUsed + txn_size
             \/ pc = "i_header" /\ bytesUsed' = 0]_vars

(***************************************************************************)
(* C9  A create writes no home location.  Every step of a create, to its   *)
(* success, failure or kill, leaves every block outside the journal region *)
(* (blocks 1..16) unchanged: superblock, inode bitmap, data bitmap, inode   *)
(* table, root directory block.                                            *)
(***************************************************************************)
OutsideJournal(d) ==
  SubSeq(d, 1, blkoff(JOURNAL_BLOCK_IDX))
    \o SubSeq(d, blkoff(JOURNAL_BLOCK_IDX + JOURNAL_BLOCKS) + 1, NumCells)

CreateWritesJournalOnly ==
  [][(CreateStarts \/ (cmd = "create" /\ pc # "idle"))
       => OutsideJournal(disk') = OutsideJournal(disk)]_vars

\* A create has ended with its transaction in the journal.
CreateWritesJournalOnlyWitness ==
  /\ pc = "idle" /\ Len(hist) >= 1
  /\ Last.cmd = "create" /\ Last.status = "ok"
  /\ bytesUsed = Last.u + txn_size
  /\ pread(disk, SizeofCommit, RecordStart + Last.u + 3 * SizeofData) = CommitRec

(***************************************************************************)
(* C10  Transaction shape and length.  A create that started at bytesUsed  *)
(* = u and ended well leaves, from record-area offset u on, Data(inode     *)
(* bitmap block), Data(inode-table block), Data(root directory block),     *)
(* Commit, and bytesUsed = u + 3*sizeof(DataRecord) + sizeof(CommitRecord).*)
(***************************************************************************)
RecordAt(d, u, k) == pread(d, SizeofData, RecordStart + u + k * SizeofData)
PayloadAt(d, u, k) == SubSeq(RecordAt(d, u, k), 3, SizeofData)

TransactionShape ==
  (pc = "idle" /\ Len(hist) >= 1 /\ Last.cmd = "create" /\ Last.status = "ok")
    => LET u == Last.u
       IN  /\ bytesUsed = u + 3 * SizeofData + SizeofCommit
           /\ \A k \in 0..2 : RecordAt(disk, u, k)[1] = Word(JTYPE_DATA)
           /\ RecordAt(disk, u, 0)[2] = Word(INODE_BMAP_IDX)
           /\ RecordAt(disk, u, 1)[2] = Word(ItableBlock(Last.ino))
           /\ RecordAt(disk, u, 2)[2] = Word(DATA_START_IDX)
           /\ BitSet(PayloadAt(disk, u, 0), Last.ino)
           /\ PayloadAt(disk, u, 1)[(Last.ino % ipb) + 1] = FileInode
           /\ pread(disk, SizeofCommit, RecordStart + u + 3 * SizeofData) = CommitRec

(* ---- cmd_install on any journal content ---- *)
\* The image is the input of cmd_install: here its record area holds any
\* sequence of DATA records with at most one COMMIT among them, ended by
\* nothing, a COMMIT or a word that is no record type, and nbytes_used
\* covers exactly that content.
ContentTargets == <<INODE_BMAP_IDX, INODE_START_IDX, DATA_START_IDX>>

\* The j-th DATA record of a content: its payload tells j.
ContentRec(j) ==
  DataRec(ContentTargets[((j - 1) % 3) + 1], [k \in 1..BLOCK_SIZE |-> Word(100 + j)])

RECURSIVE Records(_, _)
Records(a, b) == IF a > b THEN <<>> ELSE ContentRec(a) \o Records(a + 1, b)

ContentTails == {<<>>, CommitRec, <<Zero>>}
MaxRecords == journal_cap \div SizeofData

JournalContents ==
  { c \in
      {Records(1, n) \o t : n \in 0..MaxRecords, t \in ContentTails}
        \cup {Records(1, n1) \o CommitRec \o Records(n1 + 1, n2) \o t :
                n1 \in 1..3, n2 \in 1..MaxRecords, t \in ContentTails} :
      Len(c) <= journal_cap }

WithJournal(d, c) ==
  pwrite(pwrite(d, <<Word(Len(c))>>, blkoff(JOURNAL_BLOCK_IDX)), c, RecordStart)

ReplayInit ==
  /\ disk \in {WithJournal(Image(1), c) : c \in JournalContents}
  /\ pc = "idle" /\ status = "none" /\ stderr = ""
  /\ NoLocals
  /\ ioerr = FALSE
  /\ ops = 0 /\ crashes = 0 /\ cmd = "none" /\ before = <<>>
  /\ hist = <<>> /\ interrupted = NotInterrupted

ReplayNext == InstallStart \/ InstallScan \/ InstallApply \/ InstallHeader

\* A running cmd_install goes on to its next system call.
ReplaySpec ==
  /\ ReplayInit /\ [][ReplayNext]_vars
  /\ WF_vars(InstallScan) /\ WF_vars(InstallApply) /\ WF_vars(InstallHeader)

(***************************************************************************)
(* C8  Every install ends, with success and with bytesUsed = 0, whatever   *)
(* the journal holds within bytesUsed: a clean end, an unknown record      *)
(* type, DATA records with no COMMIT.                                      *)
(***************************************************************************)
InstallEndsWell ==
  (pc = "idle" /\ Len(hist) >= 1 /\ Last.cmd = "install")
    => (Last.status = "ok" /\ status = "ok" /\ bytesUsed = 0)

(***************************************************************************)
(* C11  Bitmap/inode agreement.  After a create from an Empty journal that *)
(* ended well and an install that ended well, for every slot i of the      *)
(* inode table, bit i of the inode bitmap is set exactly when inode-table  *)
(* entry i has a type other than 0 (free).                                 *)
(***************************************************************************)
\* in->type, the low uint16_t of the first word of an inode_t
InodeType(c) == c.w % 65536

BitmapAgrees(d) ==
  \A n \in 0..(INODE_BLOCKS * ipb - 1) :
    BitSet(Block(d, INODE_BMAP_IDX), n) <=> InodeType(Inode(d, n)) # 0

BitmapInodeAgreement ==
  (CreateThenInstall /\ Prev.u = 0) => BitmapAgrees(disk)

(***************************************************************************)
(* C12  Allocation determinism.  A create allocates the lowest clear bit   *)
(* of the inode bitmap, so after create(a) and install the next create     *)
(* gives its file a strictly higher inode number than a's.                 *)
(***************************************************************************)
LowestClearBit(d, n) ==
  /\ n \in 0..(BmapBits - 1)
  /\ ~BitSet(Block(d, INODE_BMAP_IDX), n)
  /\ \A c \in 0..(n - 1) : BitSet(Block(d, INODE_BMAP_IDX), c)

AllocationOrdered ==
  [][(CreateStarts /\ pc' = "c_data1")
       => /\ LowestClearBit(disk, ino')
          /\ (CreateThenInstall /\ Prev.u = 0) => ino' > Prev.ino]_vars

(* ---- the commands on a backing store whose writes can fail ---- *)
\* write() or pwrite() returns -1 and nothing is written (an I/O error, a
\* full device).  No return value is looked at (lines 72, 180-197, 244), so
\* the command goes on as after a write that worked.  At most one call of a
\* command fails.
CreateDataFails(at, next) ==
  /\ pc = at /\ ~ioerr
  /\ ioerr' = TRUE
  /\ off' = off + SizeofData
  /\ pc' = next
  /\ UNCHANGED <<disk, status, stderr, jh, createLocals, installLocals, ops,
                 crashes, cmd, before, hist, interrupted>>

CreateData1Fails == CreateDataFails("c_data1", "c_data2")
CreateData2Fails == CreateDataFails("c_data2", "c_data3")
CreateData3Fails == CreateDataFails("c_data3", "c_commit")

CreateCommitFails ==
  /\ pc = "c_commit" /\ ~ioerr
  /\ ioerr' = TRUE
  /\ pc' = "c_header"
  /\ UNCHANGED <<disk, status, stderr, jh, off, createLocals, installLocals,
                 ops, crashes, cmd, before, hist, interrupted>>

CreateHeaderFails ==
  /\ pc = "c_header" /\ ~ioerr
  /\ ioerr' = TRUE
  /\ Exit("ok", "")
  /\ hist' = Remember(hist, Ended("create", "ok", name, ino,
                                FirstFreeSlot(readblk(before, DATA_START_IDX)), jh))
  /\ UNCHANGED <<disk, ops, crashes, cmd, interrupted>>

InstallApplyFails ==
  /\ pc = "i_apply" /\ ~ioerr
  /\ ioerr' = TRUE
  /\ IF i + 1 < np
       THEN /\ i' = i + 1
            /\ UNCHANGED <<pc, off, pending>>
       ELSE /\ i' = 0 /\ pending' = <<>>
            /\ off' = off + SizeofCommit
            /\ pc' = "i_scan"
  /\ UNCHANGED <<disk, status, stderr, jh, end, oob, createLocals, ops,
                 crashes, cmd, before, hist, interrupted>>

InstallHeaderFails ==
  /\ pc = "i_header" /\ ~ioerr
  /\ ioerr' = TRUE
  /\ \E st \in (IF oob THEN {"ok", "fault"} ELSE {"ok"}) :
       /\ Exit(st, "")
       /\ hist' = Remember(hist, Ended("install", st, <<>>, -1, -1, jh))
  /\ UNCHANGED <<disk, ops, crashes, cmd, interrupted>>

IoNext ==
  \/ Next
  \/ CreateData1Fails \/ CreateData2Fails \/ CreateData3Fails
  \/ CreateCommitFails
  \/ CreateHeaderFails
  \/ InstallApplyFails
  \/ InstallHeaderFails

\* From the fresh image and from the image after one creation.
IoInit == Init /\ disk \in {Image(0), Image(1)}

IoSpec == IoInit /\ [][IoNext]_vars

(***************************************************************************)
(* C13  I/O failures are reported.  A command one of whose write calls on  *)
(* the backing store failed ends with a failure, never with success.       *)
(***************************************************************************)
IoFailureReported == (pc = "idle" /\ ioerr) => status # "ok"

(***************************************************************************)
(* C14  Replay order and commit gating.  When an install has gone through  *)
(* the journal, every home block holds the payload of the last DATA record *)
(* that targets it among the records of complete transactions (DATA        *)
(* records followed by a COMMIT within bytesUsed, before any unknown tag), *)
(* and is unchanged when there is no such record: DATA records with no     *)
(* COMMIT after them are not written.                                      *)
(***************************************************************************)
\* The records of the journal of image d from offset o to e, in journal
\* order, up to the first word that is no record type.
RECURSIVE Items(_, _, _)
Items(d, o, e) ==
  IF o >= e THEN <<>>
  ELSE IF d[o + 1].w = JTYPE_DATA
    THEN <<[type |-> JTYPE_DATA, block_no |-> d[o + 2].w,
            data |-> SubSeq(d, o + 3, o + SizeofData)]>>
           \o Items(d, o + SizeofData, e)
  ELSE IF d[o + 1].w = JTYPE_COMMIT
    THEN <<[type |-> JTYPE_COMMIT, block_no |-> 0, data |-> <<>>]>>
           \o Items(d, o + SizeofCommit, e)
  ELSE <<>>

JournalItems(d) == Items(d, RecordStart, RecordStart + read_jhdr(d))

\* Indices of the DATA records for block b that a COMMIT follows.
CommittedFor(it, b) ==
  {k \in 1..Len(it) :
     /\ it[k].type = JTYPE_DATA /\ it[k].block_no = b
     /\ \E c \in (k + 1)..Len(it) : it[c].type = JTYPE_COMMIT}

ExpectedBlock(d, b) ==
  LET it == JournalItems(d)
      ks == CommittedFor(it, b)
  IN  IF ks = {} THEN Block(d, b)
      ELSE it[CHOOSE k \in ks : \A j \in ks : j <= k].data

ReplayOrder ==
  (cmd = "install" /\ pc = "i_header")
    => \A b \in INODE_BMAP_IDX..DATA_START_IDX :
         Block(disk, b) = ExpectedBlock(before, b)

(***************************************************************************)
(* C15  The pending list holds every DATA record read since the last       *)
(* COMMIT, however many: while an install scans and applies, each record   *)
(* read since the last COMMIT is in the list as it was read, in order, and *)
(* none was stored outside the list.                                       *)
(***************************************************************************)
PendingListHolds ==
  (cmd = "install" /\ pc \in {"i_scan", "i_apply"})
    => /\ ~oob
       /\ \A k \in 1..np :
            pending[k] = PendingRec(disk, off - (np - k + 1) * SizeofData)

(***************************************************************************)
(* C16  Creates journaled without an install in between stay distinct:     *)
(* two creates in a row that both ended well, with different names, have   *)
(* been given different inode numbers.                                     *)
(***************************************************************************)
TwoCreates ==
  /\ Len(hist) = 2
  /\ Prev.cmd = "create" /\ Prev.status = "ok"
  /\ Last.cmd = "create" /\ Last.status = "ok"
  /\ Prev.name # Last.name

CreatesStayDistinct == TwoCreates => Prev.ino # Last.ino

(***************************************************************************)
(* C17  An installed directory entry is never overwritten by a later       *)
(* create: when the install that follows a create has gone through the     *)
(* journal, every name the root directory held before that install is      *)
(* still in it.                                                            *)
(***************************************************************************)
\* Names of the entries from slot 2 on.
DirNames(d) ==
  {Block(d, DATA_START_IDX)[s + 1].x : s \in 2..(DirSlots - 1)} \ {<<>>}

EntriesKept ==
  (/\ cmd = "install" /\ pc = "i_header"
   /\ Len(hist) >= 1 /\ Last.cmd = "create" /\ Last.status = "ok")
    => DirNames(before) \subseteq DirNames(disk)

(***************************************************************************)
(* C18  The inode-table block a create journals lies inside the inode      *)
(* table: while a create runs, its inode number is below INODE_BLOCKS *    *)
(* ipb and the block of its second DATA record is one of the INODE_BLOCKS  *)
(* blocks from INODE_START_IDX.                                            *)
(***************************************************************************)
ItableBlockInRange ==
  (cmd = "create" /\ pc # "idle")
    => /\ InTable(ino)
       /\ itable_block \in INODE_START_IDX..(INODE_START_IDX + INODE_BLOCKS - 1)

(***************************************************************************)
(* C19  Persisting the journal header changes only the bytesUsed field:    *)
(* the header write that ends a create or an install leaves every byte of  *)
(* the record area, which starts sizeof(journal_header_t) into block 1, as *)
(* it was, so the records written before it are intact after it.           *)
(***************************************************************************)
HeaderWriteFrame ==
  [][(pc \in {"c_header", "i_header"})
       => JournalBytes(disk') = JournalBytes(disk)]_vars

(***************************************************************************)
(* C20  Replay is crash-safe.  An install killed before its header write   *)
(* leaves bytesUsed and the record area as it found them, and the install  *)
(* run after it leaves the home blocks as one uninterrupted install of the *)
(* image the killed one started from would have.                           *)
(***************************************************************************)
AfterKilledInstall == interrupted.cmd = "install"

ReplayCrashSafe ==
  /\ (AfterKilledInstall /\ pc = "idle" /\ status = "killed")
       => /\ bytesUsed = read_jhdr(interrupted.image)
          /\ JournalBytes(disk) = JournalBytes(interrupted.image)
  /\ (/\ AfterKilledInstall /\ cmd = "install" /\ status # "killed"
      /\ pc \in {"i_header", "idle"})
       => HomeBlocks(disk) = HomeBlocks(Replayed(interrupted.image))

====
